---- MODULE Spec2Model ----
(***************************************************************************)
(* A model of the track pipeline of ccart-cyclone-impact-modeling:         *)
(*   apply_climate_modifiers   (scripts/apply_climate_modifiers.py)        *)
(*   encode_track, refine_bhola_analogs (scripts/refine_analogs_pca.py)    *)
(*   cluster_tracks_by_path    (scripts/cluster_tracks.py)                 *)
(*                                                                         *)
(* Numbers.  Every physical value is an exact fixed-point number: the      *)
(* integer v stands for v / Unit.  Modifier factors are hundredths         *)
(* (num / 100).  With whole-knot inputs every product and every halving    *)
(* below is exact, so \div never rounds.                                   *)
(*                                                                         *)
(* Storage.  xarray variables are numpy buffers; a Dataset refers to them. *)
(* The model keeps a heap of buffers (arrays) and of attribute             *)
(* dictionaries (dicts); a track object is a record of addresses.          *)
(***************************************************************************)
EXTENDS Integers, Sequences, FiniteSets, TLC

VARIABLES
    pc,        \* which component this behaviour exercises, and its position
    arrays,    \* heap of numpy buffers: address -> [data, dtype]
    dicts,     \* heap of attrs dictionaries: address -> [key -> value]
    analog,    \* the analog track object handed to apply_climate_modifiers
    analog0,   \* the analog's contents before the first call
    variants,  \* the track objects returned so far, in call order
    calls,     \* per call: arguments, input contents, outcome, returned contents
    writes,    \* the variants the caller wrote into afterwards, in order
    tracks,    \* the track collection given to encode / cluster / refine
    args,      \* the other arguments of that call
    out        \* what the call raised or returned

vars == <<pc, arrays, dicts, analog, analog0, variants, calls, writes, tracks, args, out>>

synthVars == <<arrays, dicts, analog, analog0, variants, calls, writes>>

coreVars == <<tracks, args, out>>

(***************************************************************************)
(* Bounds of the model.                                                    *)
(***************************************************************************)
MaxLen == 3          \* longest track given to encode_track, in points
MaxSteps == 2        \* longest analog given to apply_climate_modifiers, in time steps
MaxVariants == 2     \* calls of apply_climate_modifiers on one analog
MaxWrites == 1       \* later in-place writes by the caller into a variant
MaxPoints == 3       \* largest n_points given to encode_track
MaxTracks == 7       \* largest track collection given to cluster_tracks_by_path
MaxFullPerm == 4     \* collections up to this size are tried in every order
MaxPool == 3         \* largest track collection given to refine_bhola_analogs

Unit == 2 * 100

Whole(k) == k * Unit

Min(a, b) == IF a <= b THEN a ELSE b

Max(a, b) == IF a >= b THEN a ELSE b

SeqSum(s) ==
    LET RECURSIVE go(_)
        go(i) == IF i = 0 THEN 0 ELSE s[i] + go(i - 1)
    IN go(Len(s))

(***************************************************************************)
(* Track data model (function_load_synthetic_track.py builds one).         *)
(***************************************************************************)
FieldOrder ==
    <<"time", "lat", "lon", "max_sustained_wind", "central_pressure",
      "environmental_pressure", "radius_max_wind", "time_step", "basin">>

Fields == {FieldOrder[i] : i \in 1..Len(FieldOrder)}

\* numpy buffer
Buf(data, dtype) == [data |-> data, dtype |-> dtype]

\* the contents of a track object: every buffer and the attrs, by value
Contents(arrs, dcts, t) ==
    [vars  |-> [f \in DOMAIN t.vars |-> arrs[t.vars[f]]],
     attrs |-> dcts[t.attrs]]

\* every heap address a track object refers to
Storage(t) == {t.vars[f] : f \in DOMAIN t.vars}

(***************************************************************************)
(* apply_climate_modifiers                                                 *)
(***************************************************************************)

\* a Python number passed as a modifier: num / 100, an int or a float, and
\* the text an f-string gives for it
Factor(num, isInt, repr) == [num |-> num, isInt |-> isInt, repr |-> repr]

\* track.copy(deep=False): a new Dataset on the same buffers
CopyShallow(arrs, dcts, t) ==
    [arrays |-> arrs,
     dicts  |-> Append(dcts, dcts[t.attrs]),
     track  |-> [vars |-> t.vars, attrs |-> Len(dcts) + 1]]

\* a deep copy that does not carry the attrs over
CopyDeepDropAttrs(arrs, dcts, t) ==
    [arrays |-> arrs \o [i \in 1..Len(arrs) |-> arrs[i]],
     dicts  |-> Append(dcts, [k \in {} |-> 0]),
     track  |-> [vars  |-> [f \in DOMAIN t.vars |-> Len(arrs) + t.vars[f]],
                 attrs |-> Len(dcts) + 1]]

\* track.copy(deep=True): every buffer and the attrs dictionary copied to
\* fresh storage
CopyDeep(arrs, dcts, t) ==
    LET present == SelectSeq(FieldOrder, LAMBDA f : f \in DOMAIN t.vars)
        slot(f) == CHOOSE i \in 1..Len(present) : present[i] = f
    IN [arrays |-> arrs \o [i \in 1..Len(present) |-> arrs[t.vars[present[i]]]],
        dicts  |-> Append(dcts, dcts[t.attrs]),
        track  |-> [vars  |-> [f \in DOMAIN t.vars |-> Len(arrs) + slot(f)],
                    attrs |-> Len(dcts) + 1]]

\* numpy refuses to store a float64 product into an int64 buffer
CastRefused(buf, m) == buf.dtype = "int" /\ ~m.isInt

\* buffer *= m, elementwise
ImulAdditive(buf, m) ==
    Buf([i \in 1..Len(buf.data) |-> buf.data[i] + (Whole(m.num) \div 100)], buf.dtype)

\* buffer = (buffer * m).astype(int): the product cut to whole units
ImulTruncating(buf, m) ==
    Buf([i \in 1..Len(buf.data) |-> (((buf.data[i] * m.num) \div 100) \div Unit) * Unit],
        buf.dtype)

Imul(buf, m) == Buf([i \in 1..Len(buf.data) |-> (buf.data[i] * m.num) \div 100], buf.dtype)

\* 1000 - (wind * 0.5), elementwise: always a fresh float64 buffer
ParametricPressureNoHalf(wind) ==
    Buf([i \in 1..Len(wind.data) |-> Whole(1000) - wind.data[i]], "float")

ParametricPressure(wind) ==
    Buf([i \in 1..Len(wind.data) |-> Whole(1000) - (wind.data[i] \div 2)], "float")

\* d[k] = v on a dictionary
DictSet(d, k, v) == [x \in DOMAIN d \cup {k} |-> IF x = k THEN v ELSE d[x]]

\* d.get(k, default)
DictGet(d, k, default) == IF k \in DOMAIN d THEN d[k] ELSE default

\* the metadata without the category override of line 30
TagMetadataKeepCategory(d, inAttrs, wb, rs) ==
    LET d1 == DictSet(d, "sid", "SYNTH_" \o DictGet(inAttrs, "sid", "N/A") \o "_WARMED")
        d2 == DictSet(d1, "scenario", "Wind x" \o wb.repr \o ", RMW x" \o rs.repr)
    IN DictSet(d2, "orig_event_flag", FALSE)

\* lines 27-30: the four metadata entries, read from the input track
TagMetadata(d, inAttrs, wb, rs) ==
    LET d1 == DictSet(d, "sid", "SYNTH_" \o DictGet(inAttrs, "sid", "N/A") \o "_WARMED")
        d2 == DictSet(d1, "scenario", "Wind x" \o wb.repr \o ", RMW x" \o rs.repr)
        d3 == DictSet(d2, "orig_event_flag", FALSE)
    IN DictSet(d3, "category", 5)

\* The whole function on a heap: the heap after the call, what was raised,
\* and the returned object.
ApplyClimateModifiers(arrs, dcts, track, wb, rs) ==
    LET c  == CopyDeep(arrs, dcts, track)
        m  == c.track
        w  == m.vars["max_sustained_wind"]
        hasR == "radius_max_wind" \in DOMAIN m.vars
        hasP == "central_pressure" \in DOMAIN m.vars
        a1 == [c.arrays EXCEPT ![w] = Imul(@, wb)]
        a2 == IF hasR THEN [a1 EXCEPT ![m.vars["radius_max_wind"]] = Imul(@, rs)] ELSE a1
        a3 == IF hasP THEN Append(a2, ParametricPressure(a2[w])) ELSE a2
        v3 == IF hasP THEN [m.vars EXCEPT !["central_pressure"] = Len(a3)] ELSE m.vars
        d3 == [c.dicts EXCEPT ![m.attrs] = TagMetadata(@, dcts[track.attrs], wb, rs)]
    IN  IF CastRefused(c.arrays[w], wb)
        THEN [raised |-> "UFuncTypeError", arrays |-> c.arrays, dicts |-> c.dicts]
        ELSE IF hasR /\ CastRefused(a1[m.vars["radius_max_wind"]], rs)
        THEN [raised |-> "UFuncTypeError", arrays |-> a1, dicts |-> c.dicts]
        ELSE [raised |-> "none", arrays |-> a3, dicts |-> d3,
              modified |-> [vars |-> v3, attrs |-> m.attrs]]

(***************************************************************************)
(* The analogs the synthesizer is run on.                                  *)
(***************************************************************************)
WindKnots == {40, 100}

\* the shapes of track the repository produces or loads
TrackKinds == {"bhola", "ibtracs", "bare", "intrmw"}

Const(n, v) == [i \in 1..n |-> v]

Ramp(n, v0, dv) == [i \in 1..n |-> Whole(v0 + dv * (i - 1))]

\* name -> buffer for a track of the given kind with the given winds (knots)
TrackVars(kind, winds) ==
    LET n == Len(winds)
        w == [i \in 1..n |-> Whole(winds[i])]
        base == [f \in {"time", "lat", "lon", "max_sustained_wind"} |->
                   CASE f = "time" -> Buf([i \in 1..n |-> 3 * (i - 1)], "int")
                     [] f = "lat"  -> Buf(Ramp(n, 16, 1), "float")
                     [] f = "lon"  -> Buf(Ramp(n, 89, 1), "float")
                     [] OTHER      -> Buf(w, IF kind = "bhola" THEN "int" ELSE "float")]
        bhola == [f \in Fields |->
                   CASE f = "central_pressure"       -> ParametricPressure(Buf(w, "int"))
                     [] f = "environmental_pressure" -> Buf(Const(n, Whole(1010)), "int")
                     [] f = "radius_max_wind"        -> Buf(Ramp(n, 60, -5), "float")
                     [] f = "time_step"              -> Buf(Const(n, Whole(3)), "int")
                     [] f = "basin"                  -> Buf(Const(n, "NI"), "str")
                     [] OTHER                        -> base[f]]
        ibtracs == [f \in Fields |->
                   CASE f = "central_pressure"       -> Buf(Const(n, Whole(950)), "float")
                     [] f = "environmental_pressure" -> Buf(Const(n, Whole(1005)), "float")
                     [] f = "radius_max_wind"        -> Buf(Ramp(n, 30, 5), "float")
                     [] f = "time_step"              -> Buf(Const(n, Whole(3)), "float")
                     [] f = "basin"                  -> Buf(Const(n, "NI"), "str")
                     [] OTHER                        -> base[f]]
        intrmw == [f \in DOMAIN base \cup {"radius_max_wind"} |->
                   IF f = "radius_max_wind" THEN Buf(Ramp(n, 60, -5), "int") ELSE base[f]]
    IN CASE kind = "bhola"   -> bhola
         [] kind = "ibtracs" -> ibtracs
         [] kind = "intrmw"  -> intrmw
         [] OTHER            -> base

TrackAttrs(kind) ==
    CASE kind = "bhola" ->
           [k \in {"sid", "name", "scenario", "orig_event_flag", "category",
                   "max_sustained_wind_unit", "central_pressure_unit"} |->
              CASE k = "sid" -> "Synthetic_Bhola_2035"
                [] k = "name" -> "Synthetic Bhola"
                [] k = "scenario" -> "+2C warming"
                [] k = "orig_event_flag" -> FALSE
                [] k = "category" -> 5
                [] k = "max_sustained_wind_unit" -> "kn"
                [] OTHER -> "mb"]
      [] kind = "ibtracs" ->
           [k \in {"sid", "name", "orig_event_flag", "category",
                   "max_sustained_wind_unit", "central_pressure_unit"} |->
              CASE k = "sid" -> "1970306N09092"
                [] k = "name" -> "BHOLA"
                [] k = "orig_event_flag" -> TRUE
                [] k = "category" -> 3
                [] k = "max_sustained_wind_unit" -> "kn"
                [] OTHER -> "mb"]
      [] kind = "intrmw" -> [k \in {"name", "category"} |-> IF k = "name" THEN "X" ELSE 1]
      [] OTHER -> [k \in {} |-> 0]

\* a heap holding just that track, and the object referring to it
Load(kind, winds) ==
    LET tv == TrackVars(kind, winds)
        present == SelectSeq(FieldOrder, LAMBDA f : f \in DOMAIN tv)
        slot(f) == CHOOSE i \in 1..Len(present) : present[i] = f
    IN [arrays |-> [i \in 1..Len(present) |-> tv[present[i]]],
        dicts  |-> <<TrackAttrs(kind)>>,
        track  |-> [vars |-> [f \in DOMAIN tv |-> slot(f)], attrs |-> 1]]

\* the modifier values callers pass (wind_boost, rmw_shrink)
WindBoosts ==
    {Factor(115, FALSE, "1.15"), Factor(100, FALSE, "1.0"), Factor(200, TRUE, "2"),
     Factor(0, FALSE, "0.0"), Factor(-50, FALSE, "-0.5")}

RmwShrinks ==
    {Factor(85, FALSE, "0.85"), Factor(100, FALSE, "1.0"), Factor(100, TRUE, "1"),
     Factor(0, FALSE, "0.0"), Factor(-100, FALSE, "-1.0")}

ModifierPairs ==
    {<<wb, rs>> \in WindBoosts \X RmwShrinks :
        \/ wb.num = 115 /\ rs.num \in {85, 0}
        \/ wb.num = 100 /\ rs.num \in {100, -100} /\ ~rs.isInt
        \/ wb.num <= 0 /\ rs.num = 85
        \/ wb.isInt /\ rs.isInt}

NoTrack == [vars |-> <<>>, attrs |-> <<>>]

NoArgs == [op |-> "none"]

NoOut == [raised |-> "none", value |-> <<>>]

CoreIdle == tracks = <<>> /\ args = NoArgs /\ out = NoOut

InitSynth ==
    /\ pc = "synth"
    /\ \E kind \in TrackKinds, n \in 1..MaxSteps :
         \E peak \in WindKnots :
            LET h == Load(kind, [i \in 1..n |-> IF i = n THEN peak ELSE 40 + 30 * i])
            IN /\ arrays = h.arrays
               /\ dicts = h.dicts
               /\ analog = h.track
               /\ analog0 = Contents(h.arrays, h.dicts, h.track)
    /\ variants = <<>>
    /\ calls = <<>>
    /\ writes = <<>>
    /\ CoreIdle

\* one call synthetic = apply_climate_modifiers(analog, wb, rs)
Synthesize ==
    /\ pc = "synth"
    /\ Len(calls) < MaxVariants
    /\ \E p \in ModifierPairs :
         LET r  == ApplyClimateModifiers(arrays, dicts, analog, p[1], p[2])
             ok == r.raised = "none"
         IN /\ arrays' = r.arrays
            /\ dicts' = r.dicts
            /\ variants' = IF ok THEN Append(variants, r.modified) ELSE variants
            /\ calls' = Append(calls,
                 [wb |-> p[1], rs |-> p[2],
                  input |-> Contents(arrays, dicts, analog),
                  raised |-> r.raised,
                  variant |-> IF ok THEN Len(variants) + 1 ELSE 0,
                  returned |-> IF ok THEN Contents(r.arrays, r.dicts, r.modified)
                               ELSE NoTrack])
    /\ UNCHANGED <<pc, analog, analog0, writes, tracks, args, out>>

\* the caller later edits one variant in place: variant[f].values[i] = 0
WriteVariant ==
    /\ pc = "synth"
    /\ Len(writes) < MaxWrites
    /\ \E v \in 1..Len(variants) :
         \E f \in {"lat", "max_sustained_wind"} :
            /\ arrays' = [arrays EXCEPT ![variants[v].vars[f]].data[1] = 0]
            /\ writes' = Append(writes, v)
    /\ UNCHANGED <<pc, dicts, analog, analog0, variants, calls, tracks, args, out>>

\* the caller later edits one variant's metadata: variant.attrs["name"] = ...
WriteVariantAttrs ==
    /\ pc = "synth"
    /\ Len(writes) < MaxWrites
    /\ \E v \in 1..Len(variants) :
         /\ dicts' = [dicts EXCEPT ![variants[v].attrs] = DictSet(@, "name", "edited")]
         /\ writes' = Append(writes, v)
    /\ UNCHANGED <<pc, arrays, analog, analog0, variants, calls, tracks, args, out>>

NextSynth == Synthesize \/ WriteVariant \/ WriteVariantAttrs

SpecSynth == InitSynth /\ [][NextSynth]_vars

(***************************************************************************)
(* Claims about apply_climate_modifiers, under SpecSynth.                  *)
(***************************************************************************)
Returned == {i \in 1..Len(calls) : calls[i].raised = "none"}

Wind(t) == t.vars["max_sustained_wind"].data

Pressure(t) == t.vars["central_pressure"].data

HasPressure(t) == "central_pressure" \in DOMAIN t.vars

IsParametric(t) ==
    \A i \in 1..Len(Wind(t)) : 2 * Pressure(t)[i] = 2 * Whole(1000) - Wind(t)[i]

\* C1: every returned track has max_sustained_wind = input wind * wind_boost
\* at every index and, when the input has central_pressure, central_pressure
\* = 1000 - 0.5 * (the returned wind) at every index.
C1_WindScaledPressureRecomputed ==
    pc = "synth" =>
    \A c \in Returned :
        LET a == calls[c].input
            r == calls[c].returned
        IN /\ Len(Wind(r)) = Len(Wind(a))
           /\ \A i \in 1..Len(Wind(a)) : 100 * Wind(r)[i] = Wind(a)[i] * calls[c].wb.num
           /\ HasPressure(a) =>
                /\ HasPressure(r)
                /\ Len(Pressure(r)) = Len(Wind(r))
                /\ IsParametric(r)

\* a call that boosted the wind of a track whose measured pressure did not
\* follow the parametric relation
C1_Witness ==
    \E c \in Returned :
        /\ calls[c].wb.num = 115
        /\ HasPressure(calls[c].input)
        /\ ~IsParametric(calls[c].input)
        /\ Len(Wind(calls[c].input)) > 1

\* C2: whatever calls were made and whatever the caller wrote into a variant
\* afterwards, the analog holds what it held before the first call; no
\* variant shares a buffer or an attrs dictionary with the analog or with
\* another variant; a variant nobody wrote into holds what was returned.
C2_InputNeverMutatedNoSharing ==
    pc = "synth" =>
    /\ Contents(arrays, dicts, analog) = analog0
    /\ \A v \in 1..Len(variants) :
          /\ Storage(variants[v]) \cap Storage(analog) = {}
          /\ variants[v].attrs # analog.attrs
          /\ \A u \in 1..Len(variants) : u # v =>
                /\ Storage(variants[v]) \cap Storage(variants[u]) = {}
                /\ variants[v].attrs # variants[u].attrs
    /\ \A c \in Returned :
          (\A k \in 1..Len(writes) : writes[k] # calls[c].variant) =>
              Contents(arrays, dicts, variants[calls[c].variant]) = calls[c].returned

\* two variants of one analog, made with different modifiers, one of them
\* edited afterwards
C2_Witness ==
    /\ Len(variants) = 2
    /\ Len(writes) >= 1
    /\ \E c \in Returned : calls[c].wb.num # 100
    /\ \E c \in Returned : Contents(arrays, dicts, variants[calls[c].variant]) # calls[c].returned

Identity(c) == calls[c].wb.num = 100 /\ calls[c].rs.num = 100

RewrittenMetadata(c) ==
    LET a == calls[c].input
        r == calls[c].returned
    IN /\ r.attrs["orig_event_flag"] = FALSE
       /\ r.attrs["sid"] = "SYNTH_" \o DictGet(a.attrs, "sid", "N/A") \o "_WARMED"
       /\ r.attrs["scenario"] = "Wind x" \o calls[c].wb.repr \o ", RMW x" \o calls[c].rs.repr

C4_NonPositiveModifierRejected ==
    pc = "synth" =>
    \A c \in 1..Len(calls) :
        (calls[c].wb.num <= 0 \/ calls[c].rs.num <= 0) =>
            calls[c].raised # "none" /\ calls[c].variant = 0

(***************************************************************************)
(* encode_track                                                            *)
(*                                                                         *)
(* A resampled value is a rational with denominator max(n_points - 1, 1);  *)
(* an encoded vector carries that denominator as its scale, so the integer *)
(* e in it stands for e / scale degrees.                                   *)
(***************************************************************************)

\* np.linspace(0, 1, n): the numerators of the n sample positions over the
\* common denominator max(n - 1, 1)
\* the step of np.linspace(0, 1, n, endpoint=False)
LinspaceDenOpen(n) == n

LinspaceDen(n) == Max(n - 1, 1)

Linspace(n) == [i \in 1..n |-> i - 1]

\* np.interp(x, xp, fp) at one position x = xnum / xden, with
\* xp = np.linspace(0, 1, Len(fp)); the result times xden
InterpAt(xnum, xden, fp) ==
    LET L == Len(fp)
        j == CHOOSE k \in 1..(L - 1) :
                (k - 1) * xden <= xnum * (L - 1) /\ xnum * (L - 1) < k * xden
    IN IF L = 1 \/ xnum <= 0 THEN fp[1] * xden
       ELSE IF xnum >= xden THEN fp[L] * xden
       ELSE fp[j] * xden + (fp[j + 1] - fp[j]) * (xnum * (L - 1) - (j - 1) * xden)

\* np.interp(np.linspace(0, 1, n), np.linspace(0, 1, len(fp)), fp)
Resample(fp, n) ==
    [i \in 1..n |-> InterpAt(Linspace(n)[i], LinspaceDen(n), fp)]

\* encode_track(track, n_points)
EncodeTrackUnsampled(track, n) ==
    [raised |-> "none",
     value  |-> [i \in 1..Len(track.lat) |-> track.lat[i] * LinspaceDen(n)]
                \o [i \in 1..Len(track.lon) |-> track.lon[i] * LinspaceDen(n)]]

EncodeTrack(track, n) ==
    IF Len(track.lat) = 0 \/ Len(track.lon) = 0
    THEN [raised |-> "ValueError", value |-> <<>>]
    ELSE [raised |-> "none", value |-> Resample(track.lat, n) \o Resample(track.lon, n)]

\* coordinates (whole degrees) the model draws lat and lon from
Degrees == {-3, 0, 4}

CoordSeqs(lo) == UNION {[1..n -> Degrees] : n \in lo..MaxLen}

SynthIdle ==
    /\ arrays = <<>> /\ dicts = <<>> /\ analog = NoTrack /\ analog0 = NoTrack
    /\ variants = <<>> /\ calls = <<>> /\ writes = <<>>

InitEncode ==
    /\ pc = "encode"
    /\ SynthIdle
    /\ \E lat \in CoordSeqs(0), lon \in CoordSeqs(0) : tracks = <<[lat |-> lat, lon |-> lon]>>
    /\ \E n \in 1..MaxPoints : args = [op |-> "encode", n_points |-> n]
    /\ out = NoOut

\* vector = encode_track(track, n_points)
Encode ==
    /\ pc = "encode"
    /\ pc' = "encoded"
    /\ out' = EncodeTrack(tracks[1], args.n_points)
    /\ UNCHANGED <<synthVars, tracks, args>>

NextEncode == Encode

SpecEncode == InitEncode /\ [][NextEncode]_vars

SeqMin(s) == CHOOSE m \in {s[i] : i \in 1..Len(s)} : \A i \in 1..Len(s) : m <= s[i]

SeqMax(s) == CHOOSE m \in {s[i] : i \in 1..Len(s)} : \A i \in 1..Len(s) : m >= s[i]

\* the n values e (over scale) run from the first to the last value of fp
\* and stay within fp's range
ResampledFrom(e, fp, n, scale) ==
    /\ Len(e) = n
    /\ e[1] = fp[1] * scale
    /\ n > 1 => e[n] = fp[Len(fp)] * scale
    /\ \A i \in 1..n : SeqMin(fp) * scale <= e[i] /\ e[i] <= SeqMax(fp) * scale

\* C5: for a track with at least one point and n_points = N >= 1 the encoded
\* vector has exactly 2N entries, the first N resampled from lat and the
\* last N resampled from lon, whether the track is shorter than, as long as
\* or longer than N.
C5_EncodedLength ==
    (pc = "encoded" /\ Len(tracks[1].lat) >= 1 /\ Len(tracks[1].lon) >= 1) =>
        LET n == args.n_points
        IN /\ out.raised = "none"
           /\ Len(out.value) = 2 * n
           /\ ResampledFrom(SubSeq(out.value, 1, n), tracks[1].lat, n, LinspaceDen(n))
           /\ ResampledFrom(SubSeq(out.value, n + 1, 2 * n), tracks[1].lon, n, LinspaceDen(n))

\* a track longer than N was encoded, and the two halves differ
C5_Witness ==
    /\ pc = "encoded"
    /\ Len(tracks[1].lat) > args.n_points
    /\ Len(tracks[1].lon) = Len(tracks[1].lat)
    /\ args.n_points > 1
    /\ out.raised = "none"
    /\ SubSeq(out.value, 1, args.n_points) # SubSeq(out.value, args.n_points + 1, 2 * args.n_points)

\* C6 as stated: encode raises, and returns no vector, when lat or lon is
\* empty and also when lat and lon differ in length.
C6_EmptyOrMisalignedRejected ==
    (pc = "encoded" /\ (\/ Len(tracks[1].lat) = 0
                        \/ Len(tracks[1].lon) = 0
                        \/ Len(tracks[1].lat) # Len(tracks[1].lon))) =>
        out.raised # "none" /\ out.value = <<>>

(***************************************************************************)
(* cluster_tracks_by_path                                                  *)
(*                                                                         *)
(* The feature of a track is (np.mean(lat), np.mean(lon)), kept as the two *)
(* sums and the length.  eps is a rational num / den.  Distances are       *)
(* compared squared and cross-multiplied, so the comparison is exact.      *)
(* Track indices are 1-based here; the labels are the code's (-1, 0, 1..). *)
(***************************************************************************)

\* lines 18-21: [np.mean(lat), np.mean(lon)]
Feature(track) ==
    [lat |-> SeqSum(track.lat), lon |-> SeqSum(track.lon), n |-> Len(track.lat)]

Sq(x) == x * x

\* euclidean distance between two features <= eps
WithinEps(f, g, eps) ==
    LET dlat == f.lat * g.n - g.lat * f.n
        dlon == f.lon * g.n - g.lon * f.n
    IN (Sq(dlat) + Sq(dlon)) * Sq(eps.den) <= Sq(eps.num) * Sq(f.n * g.n)

\* DBSCAN: the indices within eps of point i, itself included, ascending
NeighborhoodForward(feats, i, eps) ==
    SelectSeq([j \in 1..Len(feats) |-> j],
              LAMBDA j : j >= i /\ WithinEps(feats[i], feats[j], eps))

\* the neighbourhood without the points at distance zero other than i
NeighborhoodNoCoincident(feats, i, eps) ==
    SelectSeq([j \in 1..Len(feats) |-> j],
              LAMBDA j : /\ WithinEps(feats[i], feats[j], eps)
                         /\ (j = i \/ ~WithinEps(feats[i], feats[j], [num |-> 0, den |-> 1])))

Neighborhood(feats, i, eps) ==
    SelectSeq([j \in 1..Len(feats) |-> j], LAMBDA j : WithinEps(feats[i], feats[j], eps))

\* DBSCAN: core samples
IsCoreExcludingSelf(feats, i, eps, minSamples) ==
    Len(Neighborhood(feats, i, eps)) - 1 >= minSamples

IsCore(feats, i, eps, minSamples) ==
    Len(Neighborhood(feats, i, eps)) >= minSamples

\* DBSCAN's labelling pass: for each unlabelled core point in index order,
\* a depth-first expansion over an explicit stack gives every point reached
\* the current label; only core points are expanded further.
RECURSIVE DbscanExpand(_, _, _, _, _, _, _)
DbscanExpand(feats, eps, minSamples, labels, stack, i, labelNum) ==
    LET fresh == labels[i] = -1
        lab1  == IF fresh THEN [labels EXCEPT ![i] = labelNum] ELSE labels
        nb    == Neighborhood(feats, i, eps)
        push  == IF fresh /\ IsCore(feats, i, eps, minSamples)
                 THEN SelectSeq(nb, LAMBDA v : lab1[v] = -1)
                 ELSE <<>>
        st1   == stack \o push
    IN IF st1 = <<>> THEN lab1
       ELSE DbscanExpand(feats, eps, minSamples, lab1,
                         SubSeq(st1, 1, Len(st1) - 1), st1[Len(st1)], labelNum)

RECURSIVE DbscanScan(_, _, _, _, _, _)
DbscanScan(feats, eps, minSamples, labels, i, labelNum) ==
    IF i > Len(feats) THEN labels
    ELSE IF labels[i] # -1 \/ ~IsCore(feats, i, eps, minSamples)
    THEN DbscanScan(feats, eps, minSamples, labels, i + 1, labelNum)
    ELSE DbscanScan(feats, eps, minSamples,
                    DbscanExpand(feats, eps, minSamples, labels, <<>>, i, labelNum),
                    i + 1, labelNum + 1)

\* DBSCAN(eps, min_samples).fit(features).labels_
Dbscan(feats, eps, minSamples) ==
    DbscanScan(feats, eps, minSamples, [i \in 1..Len(feats) |-> -1], 1, 0)

\* len(set(labels)) - (1 if -1 in labels else 0)
ClusterCount(labels) ==
    LET used == {labels[i] : i \in 1..Len(labels)}
    IN Cardinality(used) - (IF -1 \in used THEN 1 ELSE 0)

\* cluster_tracks_by_path(tracks, eps, min_samples)
ClusterTracksByPath(trs, eps, minSamples) ==
    LET feats  == [i \in 1..Len(trs) |-> Feature(trs[i])]
        labels == Dbscan(feats, eps, minSamples)
    IN [raised |-> "none", value |-> labels, printed |-> ClusterCount(labels)]

\* the tracks the collections are drawn from
Catalogue ==
    <<[lat |-> <<-1>>,    lon |-> <<0>>],
      [lat |-> <<-2, 0>>, lon |-> <<0, 0>>],
      [lat |-> <<0>>,     lon |-> <<0>>],
      [lat |-> <<1>>,     lon |-> <<0>>],
      [lat |-> <<2>>,     lon |-> <<0>>],
      [lat |-> <<2, 3>>,  lon |-> <<0, 0>>],
      [lat |-> <<2>>,     lon |-> <<1>>],
      [lat |-> <<9, 9>>,  lon |-> <<-7, -7>>]>>

EpsValues == {[num |-> 1, den |-> 1], [num |-> 3, den |-> 2]}

MinSamplesValues == 1..4

\* the tracks of the catalogue at the given positions, in catalogue order
Pick(which) == SelectSeq([i \in 1..Len(Catalogue) |-> i], LAMBDA i : i \in which)

Collections ==
    {[k \in 1..Len(Pick(w)) |-> Catalogue[Pick(w)[k]]] :
        w \in {x \in SUBSET (1..Len(Catalogue)) : x # {} /\ Cardinality(x) <= MaxTracks}}

Swap(n, a, b) == [i \in 1..n |-> IF i = a THEN b ELSE IF i = b THEN a ELSE i]

\* the reorderings tried on a collection of n tracks
Reorderings(n) ==
    IF n <= MaxFullPerm THEN Permutations(1..n)
    ELSE {Swap(n, a, b) : a, b \in 1..n} \cup {[i \in 1..n |-> n + 1 - i]}

InitCluster ==
    /\ pc = "cluster"
    /\ SynthIdle
    /\ tracks \in Collections
    /\ \E e \in EpsValues, m \in MinSamplesValues :
          args = [op |-> "cluster", eps |-> e, min_samples |-> m]
    /\ out = NoOut

\* labels = cluster_tracks_by_path(tracks, eps, min_samples)
Cluster ==
    /\ pc = "cluster"
    /\ pc' = "clustered"
    /\ out' = ClusterTracksByPath(tracks, args.eps, args.min_samples)
    /\ UNCHANGED <<synthVars, tracks, args>>

\* the same call on the collection in another order: track perm[k] is
\* given at position k
ClusterReordered ==
    /\ pc = "clustered"
    /\ pc' = "reclustered"
    /\ \E perm \in Reorderings(Len(tracks)) :
          LET r == ClusterTracksByPath([k \in 1..Len(tracks) |-> tracks[perm[k]]],
                                       args.eps, args.min_samples)
          IN out' = [raised |-> out.raised, value |-> out.value, printed |-> out.printed,
                     perm |-> perm, permValue |-> r.value]
    /\ UNCHANGED <<synthVars, tracks, args>>

NextCluster == Cluster \/ ClusterReordered

SpecCluster == InitCluster /\ [][NextCluster]_vars

(***************************************************************************)
(* Claims about cluster_tracks_by_path, under SpecCluster.                 *)
(***************************************************************************)

\* distance between the mean positions of tracks a and b <= eps
Near(a, b, eps) ==
    LET la == Len(a.lat)
        lb == Len(b.lat)
    IN Sq(eps.den) * (Sq(lb * SeqSum(a.lat) - la * SeqSum(b.lat))
                      + Sq(lb * SeqSum(a.lon) - la * SeqSum(b.lon)))
          <= Sq(eps.num) * Sq(la) * Sq(lb)

\* a core point: at least min_samples tracks, itself included, within eps
CorePoint(trs, i, eps, m) ==
    Cardinality({j \in 1..Len(trs) : Near(trs[i], trs[j], eps)}) >= m

CorePoints(trs, eps, m) == {i \in 1..Len(trs) : CorePoint(trs, i, eps, m)}

\* the core points joined to those seen by a chain of core points, each
\* within eps of the next
RECURSIVE CoreChain(_, _, _, _)
CoreChain(trs, eps, cores, seen) ==
    LET more == {j \in cores \ seen : \E k \in seen : Near(trs[k], trs[j], eps)}
    IN IF more = {} THEN seen ELSE CoreChain(trs, eps, cores, seen \cup more)

\* the labelling is a density clustering of the collection
DensityClustering(trs, labels, eps, m) ==
    LET cores == CorePoints(trs, eps, m)
    IN /\ Len(labels) = Len(trs)
       /\ \A i \in 1..Len(trs) :
            /\ labels[i] >= -1
            /\ labels[i] = -1 <=> ~\E c \in cores : Near(trs[i], trs[c], eps)
            /\ (labels[i] >= 0 /\ i \notin cores) =>
                  \E c \in cores : Near(trs[i], trs[c], eps) /\ labels[c] = labels[i]
       /\ \A c \in cores :
            LET chain == CoreChain(trs, eps, cores, {c})
            IN \A d \in cores : labels[c] = labels[d] <=> d \in chain

\* C7: one label per track in input order; label -1 exactly for the tracks
\* within eps of no core point; core points share a label exactly when a
\* chain of core points joins them; every other labelled track carries the
\* label of a core point within eps of it.
C7_LabelsAreDensityClusters ==
    /\ pc \in {"clustered", "reclustered"} =>
          DensityClustering(tracks, out.value, args.eps, args.min_samples)
    /\ pc = "reclustered" =>
          DensityClustering([k \in 1..Len(tracks) |-> tracks[out.perm[k]]],
                            out.permValue, args.eps, args.min_samples)

\* a clustering with noise, a border point and two clusters
C7_Witness ==
    /\ pc = "clustered"
    /\ \E i, j, k, b \in 1..Len(tracks) :
          /\ out.value[i] = -1
          /\ out.value[j] = 0
          /\ out.value[k] = 1
          /\ out.value[b] >= 0
          /\ b \notin CorePoints(tracks, args.eps, args.min_samples)

\* the labels of the reordered run, put back at the original positions
InverseReordered == [i \in 1..Len(tracks) |->
    out.permValue[CHOOSE k \in 1..Len(tracks) : out.perm[k] = i]]

Groups(labels) ==
    {{i \in 1..Len(labels) : labels[i] = l} : l \in {labels[i] : i \in 1..Len(labels)} \ {-1}}

Noise(labels) == {i \in 1..Len(labels) : labels[i] = -1}

\* a border point within eps of core points of two different clusters
ContestedBorder(trs, labels, eps, m) ==
    {i \in 1..Len(trs) \ CorePoints(trs, eps, m) :
        \E c, d \in CorePoints(trs, eps, m) :
            /\ Near(trs[i], trs[c], eps)
            /\ Near(trs[i], trs[d], eps)
            /\ labels[c] # labels[d]}

\* C8 as stated: reordering the collection and putting the labels back
\* gives the same groups and the same noise set, contested border points
\* included.
C8_Original ==
    pc = "reclustered" =>
        /\ Groups(InverseReordered) = Groups(out.value)
        /\ Noise(InverseReordered) = Noise(out.value)

\* C8 amended: reordering the collection and putting the labels back gives
\* the same noise set and the same grouping of all tracks other than
\* contested border points; a contested border point stays in the group of
\* one of the core points within eps of it.
C8_GroupsUpToContestedBorders ==
    pc = "reclustered" =>
        LET back == InverseReordered
            contested == ContestedBorder(tracks, out.value, args.eps, args.min_samples)
            settled == (1..Len(tracks)) \ contested
        IN /\ Noise(back) = Noise(out.value)
           /\ \A i, j \in settled : (back[i] = back[j]) <=> (out.value[i] = out.value[j])
           /\ \A b \in contested :
                 \E c \in CorePoints(tracks, args.eps, args.min_samples) :
                     /\ Near(tracks[b], tracks[c], args.eps)
                     /\ back[c] = back[b]

\* a reordering that renumbers two clusters, with a contested border point
C8_Witness ==
    /\ pc = "reclustered"
    /\ ContestedBorder(tracks, out.value, args.eps, args.min_samples) # {}
    /\ \E i \in 1..Len(tracks) : out.value[i] = 0 /\ InverseReordered[i] = 1

(***************************************************************************)
(* refine_bhola_analogs                                                    *)
(*                                                                         *)
(* PCA centres the encoded matrix and rotates it onto its principal axes.  *)
(* With n_components at least the rank of the centred matrix (n - 1 always *)
(* is) nothing is cut off, so every dot product between reduced vectors    *)
(* equals the dot product of the centred encoded vectors.  The model keeps *)
(* those dot products (the Gram matrix) instead of coordinates: cosine     *)
(* similarity and its ordering are functions of them.  Encoded values      *)
(* carry the scale of encode_track and centring multiplies by n; both are  *)
(* common positive factors, which a cosine does not see, and the Gram      *)
(* matrix is divided by its gcd for the same reason.                       *)
(***************************************************************************)
DefaultPoints == 20

EncodedLen == 2 * DefaultPoints

Abs(x) == IF x < 0 THEN -x ELSE x

RECURSIVE Gcd(_, _)
Gcd(a, b) == IF b = 0 THEN a ELSE Gcd(b, a % b)

\* encoded = np.array([encode_track(t) for t in tracks])
EncodeAll(trs) == [i \in 1..Len(trs) |-> EncodeTrack(trs[i], DefaultPoints)]

\* PCA's centring: n * (x - column mean), for row i
Centred(enc, i) ==
    [k \in 1..EncodedLen |-> Len(enc) * enc[i][k] - SeqSum([r \in 1..Len(enc) |-> enc[r][k]])]

Dot(u, v) == SeqSum([k \in 1..Len(u) |-> u[k] * v[k]])

\* gcd of the absolute values of the entries of a vector (0 for all zeros),
\* taken by halves
VectorFactor(v) ==
    LET RECURSIVE go(_, _)
        go(lo, hi) == IF lo > hi THEN 0
                      ELSE IF lo = hi THEN Abs(v[lo])
                      ELSE Gcd(go(lo, (lo + hi) \div 2), go(((lo + hi) \div 2) + 1, hi))
    IN go(1, Len(v))

\* gcd of the absolute values of all entries of a matrix
CommonFactor(m) == VectorFactor([i \in 1..Len(m) |-> VectorFactor(m[i])])

\* dot products of the rows of reduced = pca.fit_transform(encoded); the
\* centred rows are first divided by their common factor
Gram(enc) ==
    LET n   == Len(enc)
        raw == [i \in 1..n |-> Centred(enc, i)]
        f   == CommonFactor(raw)
        c   == IF f = 0 THEN raw
               ELSE [i \in 1..n |-> [k \in 1..EncodedLen |-> raw[i][k] \div f]]
        g   == [i \in 1..n |-> [j \in 1..n |-> Dot(c[i], c[j])]]
        d   == CommonFactor(g)
    IN IF d = 0 THEN g
       ELSE [i \in 1..n |-> [j \in 1..n |-> g[i][j] \div d]]

\* p1 / q1 < p2 / q2 for positive fractions, by the Euclidean expansion
RECURSIVE FracLess(_, _, _, _)
FracLess(p1, q1, p2, q2) ==
    LET a1 == p1 \div q1
        a2 == p2 \div q2
        r1 == p1 % q1
        r2 == p2 % q2
    IN IF a1 # a2 THEN a1 < a2
       ELSE IF r1 = 0 THEN r2 > 0
       ELSE IF r2 = 0 THEN FALSE
       ELSE FracLess(q2, r2, q1, r1)

\* A cosine similarity to the centroid is s / sqrt(g) up to the centroid's
\* norm, which is common to all tracks: s = dot(v, sum of members), g = |v|^2.
\* cosine_similarity gives 0 when either norm is 0; that is s = 0, g = 1.
Sign(x) == IF x > 0 THEN 1 ELSE IF x < 0 THEN -1 ELSE 0

\* Non-negative integers too large for one machine word, as digits in
\* base LimbBase, least significant first.
LimbBase == 100 * 100

BigOf(x) == <<x % LimbBase, (x \div LimbBase) % LimbBase, x \div (LimbBase * LimbBase)>>

BigMul(x, y) ==
    LET n == Len(x) + Len(y)
        raw == [k \in 1..n |->
                  SeqSum([i \in 1..Len(x) |->
                            IF k - i + 1 \in 1..Len(y) THEN x[i] * y[k - i + 1] ELSE 0])]
        RECURSIVE carry(_, _, _)
        carry(k, c, acc) ==
            IF k > n THEN acc
            ELSE carry(k + 1, (raw[k] + c) \div LimbBase, Append(acc, (raw[k] + c) % LimbBase))
    IN carry(1, 0, <<>>)

BigLess(x, y) ==
    LET n == Max(Len(x), Len(y))
        limb(z, i) == IF i <= Len(z) THEN z[i] ELSE 0
    IN \E i \in 1..n : /\ limb(x, i) < limb(y, i)
                        /\ \A j \in (i + 1)..n : limb(x, j) = limb(y, j)

\* s1^2 / g1 < s2^2 / g2 for s1, s2 >= 0 and g1, g2 > 0; small squares are
\* compared as fractions, large ones by their cross products
SquareRatioLess(s1, g1, s2, g2) ==
    IF s1 < LimbBase /\ s2 < LimbBase THEN FracLess(s1 * s1, g1, s2 * s2, g2)
    ELSE BigLess(BigMul(BigMul(BigOf(s1), BigOf(s1)), BigOf(g2)),
                 BigMul(BigMul(BigOf(s2), BigOf(s2)), BigOf(g1)))

SimLess(a, b) ==
    IF Sign(a.s) # Sign(b.s) THEN Sign(a.s) < Sign(b.s)
    ELSE IF a.s > 0 THEN SquareRatioLess(a.s, a.g, b.s, b.g)
    ELSE IF a.s < 0 THEN SquareRatioLess(-b.s, b.g, -a.s, a.g)
    ELSE FALSE

SimEqual(a, b) == ~SimLess(a, b) /\ ~SimLess(b, a)

\* the similarities with an undefined cosine (0 / 0) counted as 1
SimilaritiesZeroAsOne(gram, labels, target) ==
    LET members == {i \in 1..Len(labels) : labels[i] = target}
        dotSum(i) == SeqSum([j \in 1..Len(gram) |-> IF j \in members THEN gram[i][j] ELSE 0])
        norm2 == SeqSum([j \in 1..Len(gram) |-> IF j \in members THEN dotSum(j) ELSE 0])
    IN [i \in 1..Len(gram) |->
          IF norm2 = 0 \/ gram[i][i] = 0 THEN [s |-> 1, g |-> 1]
          ELSE IF dotSum(i) = 0 THEN [s |-> 0, g |-> 1]
          ELSE [s |-> dotSum(i), g |-> gram[i][i]]]

\* lines 32-36: the centroid of the target cluster and every track's cosine
\* similarity to it
Similarities(gram, labels, target) ==
    LET members == {i \in 1..Len(labels) : labels[i] = target}
        dotSum(i) == SeqSum([j \in 1..Len(gram) |-> IF j \in members THEN gram[i][j] ELSE 0])
        norm2 == SeqSum([j \in 1..Len(gram) |-> IF j \in members THEN dotSum(j) ELSE 0])
    IN [i \in 1..Len(gram) |->
          IF norm2 = 0 \/ gram[i][i] = 0 \/ dotSum(i) = 0
          THEN [s |-> 0, g |-> 1]
          ELSE [s |-> dotSum(i), g |-> gram[i][i]]]

\* np.argsort(similarities): an ascending order of the indices; numpy's
\* default sort is not stable, so equal similarities may come in any order
Argsorts(sims) ==
    {p \in Permutations(1..Len(sims)) :
        \A a, b \in 1..Len(sims) : a < b => ~SimLess(sims[p[b]], sims[p[a]])}

\* np.mean([reduced[i] for i in cluster_indices], axis=0) of no rows is a
\* NaN scalar, and cosine_similarity([nan], reduced) raises on its input
CentroidAlwaysUsable(labels, target) == FALSE

CentroidRejected(labels, target) == ~\E i \in 1..Len(labels) : labels[i] = target

\* a[:k] for a Python list or array
FirstK(a, k) ==
    IF k >= 0 THEN SubSeq(a, 1, Min(k, Len(a)))
    ELSE SubSeq(a, 1, Max(Len(a) + k, 0))

\* a[-k:] for a Python list or array
LastK(a, k) ==
    IF k > 0 THEN SubSeq(a, Max(Len(a) - k, 0) + 1, Len(a))
    ELSE SubSeq(a, Min(-k, Len(a)) + 1, Len(a))

\* the operation with the candidates restricted to the target cluster
RefineTargetOnly(trs, labels, target, nComponents, topN) ==
    LET encs == EncodeAll(trs)
        enc  == [i \in 1..Len(trs) |-> encs[i].value]
        sims == Similarities(Gram(enc), labels, target)
        fail == [raised |-> "ValueError", value |-> <<>>, sims |-> <<>>]
    IN IF \E i \in 1..Len(trs) : encs[i].raised # "none" THEN {fail}
       ELSE IF nComponents > Min(Len(trs), EncodedLen) THEN {fail}
       ELSE IF CentroidRejected(labels, target) THEN {fail}
       ELSE {[raised |-> "none",
              value |-> LastK(SelectSeq(order, LAMBDA i : labels[i] = target), topN),
              sims |-> sims] : order \in Argsorts(sims)}

\* refine_bhola_analogs(tracks, labels, target_cluster, n_components, top_n):
\* the set of possible outcomes; value lists the returned tracks by their
\* position in the collection
RefineBholaAnalogs(trs, labels, target, nComponents, topN) ==
    LET encs == EncodeAll(trs)
        enc  == [i \in 1..Len(trs) |-> encs[i].value]
        sims == Similarities(Gram(enc), labels, target)
        fail == [raised |-> "ValueError", value |-> <<>>, sims |-> <<>>]
    IN IF \E i \in 1..Len(trs) : encs[i].raised # "none" THEN {fail}
       ELSE IF nComponents > Min(Len(trs), EncodedLen) THEN {fail}
       ELSE IF CentroidRejected(labels, target) THEN {fail}
       ELSE {[raised |-> "none", value |-> LastK(order, topN), sims |-> sims] :
                order \in Argsorts(sims)}

\* the tracks the collections given to refine are drawn from
RefineCatalogue ==
    {[lat |-> <<0>>,    lon |-> <<0>>],
     [lat |-> <<1>>,    lon |-> <<0>>],
     [lat |-> <<0, 2>>, lon |-> <<0, 0>>],
     [lat |-> <<0>>,    lon |-> <<1>>],
     [lat |-> <<3>>,    lon |-> <<-2>>]}

TargetClusters == {-1, 0, 1}

InitRefine ==
    /\ pc = "refine"
    /\ SynthIdle
    /\ \E n \in 1..MaxPool : tracks \in [1..n -> RefineCatalogue]
    /\ \E m \in 1..2, t \in TargetClusters, k \in {Max(Len(tracks) - 1, 1), Len(tracks) + 1},
          top \in 1..(Len(tracks) + 1) :
          args = [op |-> "refine",
                  labels |-> ClusterTracksByPath(tracks, [num |-> 1, den |-> 1], m).value,
                  target_cluster |-> t, n_components |-> k, top_n |-> top]
    /\ out = NoOut

\* refined = refine_bhola_analogs(tracks, labels, target_cluster, n_components, top_n)
Refine ==
    /\ pc = "refine"
    /\ pc' = "refined"
    /\ out' \in RefineBholaAnalogs(tracks, args.labels, args.target_cluster,
                                   args.n_components, args.top_n)
    /\ UNCHANGED <<synthVars, tracks, args>>

NextRefine == Refine

SpecRefine == InitRefine /\ [][NextRefine]_vars

(***************************************************************************)
(* Claims about refine_bhola_analogs, under SpecRefine.                    *)
(***************************************************************************)

\* C9: when no track carries target_cluster the call raises and returns no
\* tracks, whatever other clusters the labels hold.
C9_EmptyTargetClusterFails ==
    (pc = "refined" /\ \A i \in 1..Len(args.labels) : args.labels[i] # args.target_cluster) =>
        /\ out.raised # "none"
        /\ out.value = <<>>

\* a call whose target cluster is empty although the collection has another
\* cluster, and whose n_components PCA accepts
C9_Witness ==
    /\ pc = "refined"
    /\ \A i \in 1..Len(args.labels) : args.labels[i] # args.target_cluster
    /\ \E i \in 1..Len(args.labels) : args.labels[i] >= 0
    /\ args.target_cluster >= 0
    /\ args.n_components <= Len(tracks)
    /\ out.raised # "none"

\* C10 as stated: the returned tracks are in descending order of similarity,
\* equal similarities in ascending order of track index, and they are the
\* top_n highest-scoring tracks under that order.
C10_DescendingTiesByIndex ==
    (pc = "refined" /\ out.raised = "none") =>
        LET v == out.value
            better(i, j) == \/ SimLess(out.sims[j], out.sims[i])
                            \/ SimEqual(out.sims[i], out.sims[j]) /\ i < j
        IN /\ Len(v) = Min(args.top_n, Len(tracks))
           /\ \A a, b \in 1..Len(v) : a < b => better(v[a], v[b])
           /\ \A a \in 1..Len(v) :
                 \A j \in (1..Len(tracks)) \ {v[b] : b \in 1..Len(v)} : better(v[a], j)

\* the call's other arguments are ones the operation accepts
RefineAccepts ==
    /\ args.n_components <= Min(Len(tracks), EncodedLen)
    /\ \E i \in 1..Len(args.labels) : args.labels[i] = args.target_cluster

\* the returned positions are pairwise different
Distinct(v) == \A a, b \in 1..Len(v) : a # b => v[a] # v[b]

\* top_n is clamped to the collection: min(top_n, n) different tracks come
\* back, all of them when top_n > n
Clamped ==
    /\ out.raised = "none"
    /\ Len(out.value) = Min(args.top_n, Len(tracks))
    /\ Distinct(out.value)
    /\ args.top_n > Len(tracks) => {out.value[a] : a \in 1..Len(out.value)} = 1..Len(tracks)

\* C11 as stated: with top_n greater than the number of tracks the call does
\* not fail and returns the whole collection, each track once, in ranked
\* order (most similar first, equal similarities by ascending index); with
\* 1 <= top_n <= number of tracks it returns exactly top_n distinct tracks.
C11_ClampedInRankedOrder ==
    (pc = "refined" /\ RefineAccepts) =>
        /\ Clamped
        /\ args.top_n > Len(tracks) =>
              \A a, b \in 1..Len(out.value) : a < b =>
                 \/ SimLess(out.sims[out.value[b]], out.sims[out.value[a]])
                 \/ /\ SimEqual(out.sims[out.value[a]], out.sims[out.value[b]])
                    /\ out.value[a] < out.value[b]

(***************************************************************************)
(* Further claims about apply_climate_modifiers, under SpecSynth.          *)
(***************************************************************************)
RewrittenKeys == {"sid", "scenario", "orig_event_flag", "category"}

HasRadius(t) == "radius_max_wind" \in DOMAIN t.vars

Radius(t) == t.vars["radius_max_wind"].data

\* C12: every returned track's metadata has sid = "SYNTH_<the input's sid>_WARMED"
\* ("N/A" standing for a sid the input lacks), scenario = a text holding
\* both modifiers, orig_event_flag = false and category = 5, whatever the
\* input held under these four keys, and no other entry is added, removed
\* or changed.
C12_FourMetadataEntries ==
    pc = "synth" =>
    \A c \in Returned :
        LET a == calls[c].input.attrs
            r == calls[c].returned.attrs
        IN /\ DOMAIN r = DOMAIN a \cup RewrittenKeys
           /\ r["sid"] = "SYNTH_" \o (IF "sid" \in DOMAIN a THEN a["sid"] ELSE "N/A") \o "_WARMED"
           /\ r["scenario"] = "Wind x" \o calls[c].wb.repr \o ", RMW x" \o calls[c].rs.repr
           /\ r["orig_event_flag"] = FALSE
           /\ r["category"] = 5
           /\ \A k \in DOMAIN a \ RewrittenKeys : r[k] = a[k]

\* a returned variant of an observed track: category 3, orig_event_flag
\* true and no scenario before the call
C12_Witness ==
    \E c \in Returned :
        /\ DictGet(calls[c].input.attrs, "category", 0) = 3
        /\ DictGet(calls[c].input.attrs, "orig_event_flag", FALSE) = TRUE
        /\ "scenario" \notin DOMAIN calls[c].input.attrs
        /\ calls[c].returned.attrs["sid"] = "SYNTH_1970306N09092_WARMED"
        /\ calls[c].returned.attrs["scenario"] = "Wind x1.15, RMW x0.85"

\* C13: a returned track has radius_max_wind exactly when the input has it,
\* and then it is the input's times rmw_shrink at every index; it has
\* central_pressure exactly when the input has it.
C13_RadiusScaledOptionalFieldsKept ==
    pc = "synth" =>
    \A c \in Returned :
        LET a == calls[c].input
            r == calls[c].returned
        IN /\ HasRadius(r) <=> HasRadius(a)
           /\ HasRadius(a) =>
                /\ Len(Radius(r)) = Len(Radius(a))
                /\ \A i \in 1..Len(Radius(a)) : 100 * Radius(r)[i] = Radius(a)[i] * calls[c].rs.num
           /\ HasPressure(r) <=> HasPressure(a)

\* a variant of a track with both optional fields, its radius shrunk to a
\* fractional value
C13_Witness ==
    \E c \in Returned :
        /\ HasRadius(calls[c].input)
        /\ HasPressure(calls[c].input)
        /\ calls[c].rs.num = 85
        /\ \E i \in 1..Len(Radius(calls[c].returned)) : Radius(calls[c].returned)[i] % Unit # 0

\* C14: in every returned track each field other than max_sustained_wind,
\* radius_max_wind and central_pressure holds the input's values, in the
\* same number and order, and each attrs entry other than sid, scenario,
\* orig_event_flag and category holds the input's value, whatever the
\* modifiers.
C14_EverythingElseUnchanged ==
    pc = "synth" =>
    \A c \in Returned :
        LET a == calls[c].input
            r == calls[c].returned
            kept == DOMAIN a.vars \ {"max_sustained_wind", "radius_max_wind", "central_pressure"}
        IN /\ kept \subseteq DOMAIN r.vars
           /\ \A f \in kept : r.vars[f] = a.vars[f]
           /\ DOMAIN a.attrs \ RewrittenKeys = DOMAIN r.attrs \ RewrittenKeys
           /\ \A k \in DOMAIN a.attrs \ RewrittenKeys : r.attrs[k] = a.attrs[k]

\* a variant with changed winds of a track that has a basin, several time
\* steps and unit attributes, made with a non-positive modifier
C14_Witness ==
    \E c \in Returned :
        /\ "basin" \in DOMAIN calls[c].input.vars
        /\ Len(calls[c].input.vars["time"].data) > 1
        /\ "max_sustained_wind_unit" \in DOMAIN calls[c].input.attrs
        /\ calls[c].wb.num <= 0
        /\ Wind(calls[c].returned) # Wind(calls[c].input)

(***************************************************************************)
(* refine_bhola_analogs on collections that hold their own mean track, so  *)
(* that a single projected vector is zero.                                 *)
(***************************************************************************)
DegenerateCatalogue ==
    {[lat |-> <<0>>,  lon |-> <<0>>],
     [lat |-> <<1>>,  lon |-> <<0>>],
     [lat |-> <<3>>,  lon |-> <<-2>>],
     [lat |-> <<-3>>, lon |-> <<2>>]}

InitDegenerate ==
    /\ pc = "refine"
    /\ SynthIdle
    /\ \E n \in 1..MaxPool : tracks \in [1..n -> DegenerateCatalogue]
    /\ \E m \in 1..2, t \in TargetClusters, k \in {Max(Len(tracks) - 1, 1), Len(tracks) + 1},
          top \in 1..(Len(tracks) + 1) :
          args = [op |-> "refine",
                  labels |-> ClusterTracksByPath(tracks, [num |-> 1, den |-> 1], m).value,
                  target_cluster |-> t, n_components |-> k, top_n |-> top]
    /\ out = NoOut

SpecDegenerate == InitDegenerate /\ [][NextRefine]_vars

\* the centred encoded vectors, which PCA projects
CentredVectors ==
    LET encs == EncodeAll(tracks)
        enc  == [r \in 1..Len(tracks) |-> encs[r].value]
    IN [i \in 1..Len(tracks) |-> Centred(enc, i)]

\* a vector of zero norm
ZeroNorm(v) == \A k \in 1..Len(v) : v[k] = 0

\* the sum of the target cluster's vectors, a multiple of the centroid
CentroidOf(c) ==
    [k \in 1..EncodedLen |->
        SeqSum([j \in 1..Len(c) |-> IF args.labels[j] = args.target_cluster THEN c[j][k] ELSE 0])]

MaxCrowd == 4

CrowdCatalogue ==
    {[lat |-> <<0>>,  lon |-> <<0>>],
     [lat |-> <<1>>,  lon |-> <<0>>],
     [lat |-> <<-1>>, lon |-> <<-1>>],
     [lat |-> <<2>>,  lon |-> <<2>>]}

InitCrowd ==
    /\ pc = "refine"
    /\ SynthIdle
    /\ tracks \in [1..MaxCrowd -> CrowdCatalogue]
    /\ \E m \in 1..2, t \in {-1, 0}, top \in 1..2 :
          args = [op |-> "refine",
                  labels |-> ClusterTracksByPath(tracks, [num |-> 1, den |-> 1], m).value,
                  target_cluster |-> t, n_components |-> Len(tracks) - 1, top_n |-> top]
    /\ out = NoOut

SpecCrowd == InitCrowd /\ [][NextRefine]_vars

ReturnedTracks == {out.value[a] : a \in 1..Len(out.value)}

\* C18: the labels enter only through the centroid: every track of the
\* collection gets a similarity, and the min(top_n, n) returned tracks are
\* the most similar ones of the whole collection, whatever their labels
\* (no track left out is more similar than a returned one).
C18_EveryTrackScoredAndEligible ==
    (pc = "refined" /\ RefineAccepts) =>
        /\ out.raised = "none"
        /\ Len(out.sims) = Len(tracks)
        /\ Len(out.value) = Min(args.top_n, Len(tracks))
        /\ \A v \in ReturnedTracks : \A j \in (1..Len(tracks)) \ ReturnedTracks :
              ~SimLess(out.sims[v], out.sims[j])

\* the one track returned is a noise track, strictly more similar to the
\* centroid of cluster 0 than each member of cluster 0, none of which is
\* returned
C18_Witness ==
    /\ pc = "refined"
    /\ out.raised = "none"
    /\ args.target_cluster = 0
    /\ \E v \in ReturnedTracks :
          /\ args.labels[v] = -1
          /\ \A j \in 1..Len(tracks) : args.labels[j] = 0 =>
                /\ j \notin ReturnedTracks
                /\ SimLess(out.sims[j], out.sims[v])
    /\ \E j \in 1..Len(tracks) : args.labels[j] = 0

(***************************************************************************)
(* cluster_tracks_by_path on collections holding one track twice.          *)
(***************************************************************************)
InsertAt(s, p, x) == SubSeq(s, 1, p - 1) \o <<x>> \o SubSeq(s, p, Len(s))

\* a collection with a second copy of one of its tracks put at any position
TwinCollections ==
    {InsertAt(c, p, c[t]) : <<c, t, p>> \in
        {<<c, t, p>> \in Collections \X (1..MaxTracks) \X (1..(MaxTracks + 1)) :
            t <= Len(c) /\ p <= Len(c) + 1}}

\* with a twin a border point has one neighbour more
TwinMinSamples == MinSamplesValues \cup {Cardinality(MinSamplesValues) + 1}

InitTwins ==
    /\ pc = "cluster"
    /\ SynthIdle
    /\ tracks \in TwinCollections
    /\ \E e \in EpsValues, m \in TwinMinSamples :
          args = [op |-> "cluster", eps |-> e, min_samples |-> m]
    /\ out = NoOut

SpecTwins == InitTwins /\ [][Cluster]_vars

\* C17: two tracks of a collection with the same lat and lon sequences get
\* the same label, both -1 or both the same cluster id, wherever they stand
\* in the collection and whatever else it holds.
C17_IdenticalTracksSameLabel ==
    pc = "clustered" =>
        /\ out.raised = "none"
        /\ \A i, j \in 1..Len(tracks) : tracks[i] = tracks[j] => out.value[i] = out.value[j]

\* two identical tracks, not adjacent in the collection, that are border
\* points within eps of core points of two different clusters
C17_Witness ==
    /\ pc = "clustered"
    /\ \E i, j \in 1..Len(tracks) :
          /\ j > i + 1
          /\ tracks[i] = tracks[j]
          /\ i \in ContestedBorder(tracks, out.value, args.eps, args.min_samples)
          /\ out.value[i] >= 0

(***************************************************************************)
(* Further claims about encode_track, under SpecEncode.                    *)
(***************************************************************************)
Between(x, a, b) == Min(a, b) <= x /\ x <= Max(a, b)

\* the values e (over scale) lie on segments of the path fp taken in the
\* path's order: a later value never lies on an earlier segment only
FollowsPath(e, fp, scale) ==
    \E seg \in [1..Len(e) -> 1..Max(Len(fp) - 1, 1)] :
        /\ \A i, k \in 1..Len(e) : i < k => seg[i] <= seg[k]
        /\ \A i \in 1..Len(e) :
              Between(e[i], fp[seg[i]] * scale, fp[Min(seg[i] + 1, Len(fp))] * scale)

\* N copies of the single point's value
Copies(e, n, v, scale) == e = [i \in 1..n |-> v * scale]

\* C19 as stated: a one-point track encodes to N copies of its lat then N
\* copies of its lon; for any track and any N >= 1 the first and last
\* resampled lat / lon are the track's first and last, and the resampled
\* points follow the path's order.
C19_Original ==
    (pc = "encoded" /\ Len(tracks[1].lat) >= 1 /\ Len(tracks[1].lon) >= 1) =>
        LET n   == args.n_points
            lat == SubSeq(out.value, 1, n)
            lon == SubSeq(out.value, n + 1, 2 * n)
            t   == tracks[1]
        IN /\ out.raised = "none"
           /\ Len(t.lat) = 1 => Copies(lat, n, t.lat[1], LinspaceDen(n))
           /\ Len(t.lon) = 1 => Copies(lon, n, t.lon[1], LinspaceDen(n))
           /\ lat[1] = t.lat[1] * LinspaceDen(n) /\ lat[n] = t.lat[Len(t.lat)] * LinspaceDen(n)
           /\ lon[1] = t.lon[1] * LinspaceDen(n) /\ lon[n] = t.lon[Len(t.lon)] * LinspaceDen(n)
           /\ FollowsPath(lat, t.lat, LinspaceDen(n)) /\ FollowsPath(lon, t.lon, LinspaceDen(n))

\* C19 amended: a one-point track encodes to N copies of its lat then N
\* copies of its lon; for any track the first resampled lat / lon is the
\* track's first, the last resampled one is the track's last when N >= 2
\* (with N = 1 the only resampled point is the track's first point), and
\* the resampled points follow the path's order.
C19_EndpointsAndPathOrder ==
    (pc = "encoded" /\ Len(tracks[1].lat) >= 1 /\ Len(tracks[1].lon) >= 1) =>
        LET n   == args.n_points
            lat == SubSeq(out.value, 1, n)
            lon == SubSeq(out.value, n + 1, 2 * n)
            t   == tracks[1]
        IN /\ out.raised = "none"
           /\ Len(t.lat) = 1 => Copies(lat, n, t.lat[1], LinspaceDen(n))
           /\ Len(t.lon) = 1 => Copies(lon, n, t.lon[1], LinspaceDen(n))
           /\ lat[1] = t.lat[1] * LinspaceDen(n) /\ lon[1] = t.lon[1] * LinspaceDen(n)
           /\ n >= 2 => /\ lat[n] = t.lat[Len(t.lat)] * LinspaceDen(n)
                        /\ lon[n] = t.lon[Len(t.lon)] * LinspaceDen(n)
           /\ FollowsPath(lat, t.lat, LinspaceDen(n)) /\ FollowsPath(lon, t.lon, LinspaceDen(n))

\* a track that turns back (lat up then down, ending away from its start)
\* was resampled to fewer points than it has, at least two
C19_Witness ==
    /\ pc = "encoded"
    /\ out.raised = "none"
    /\ Len(tracks[1].lat) = MaxLen
    /\ Len(tracks[1].lon) = MaxLen
    /\ args.n_points >= 2
    /\ args.n_points < MaxLen
    /\ tracks[1].lat[1] < tracks[1].lat[2]
    /\ tracks[1].lat[MaxLen] < tracks[1].lat[1]
    /\ tracks[1].lon[1] # tracks[1].lon[MaxLen]

(***************************************************************************)
(* The three operations in sequence on the three-track scenario: cluster   *)
(* the collection, refine cluster 0 to its best analog, synthesize that    *)
(* analog.  Positions are in tenths of a degree (eps = 1.0 degree is 10),  *)
(* each track stays at its mean position, and every track carries winds    *)
(* rising to a peak of 100 knots at its last point.                        *)
(***************************************************************************)
ScenarioPositions ==
    <<[lat |-> 160, lon |-> 900], [lat |-> 161, lon |-> 901], [lat |-> 400, lon |-> -700]>>

Stationary(p, n) == [lat |-> Const(n, p.lat), lon |-> Const(n, p.lon)]

ScenarioWinds(n) == [i \in 1..n |-> 100 - 15 * (n - i)]

\* the heap object of a scenario track of the given kind
ScenarioLoad(track, kind) ==
    LET n == Len(track.lat)
        h == Load(kind, ScenarioWinds(n))
        degrees(v) == Buf([i \in 1..n |-> v[i] * (Unit \div 10)], "float")
    IN [h EXCEPT !.arrays[h.track.vars["lat"]] = degrees(track.lat),
                 !.arrays[h.track.vars["lon"]] = degrees(track.lon)]

InitScenario ==
    /\ pc = "scenario"
    /\ SynthIdle
    /\ \E len \in [1..Len(ScenarioPositions) -> 1..MaxSteps] :
          tracks = [i \in 1..Len(ScenarioPositions) |-> Stationary(ScenarioPositions[i], len[i])]
    /\ \E k \in {2, 3}, kind \in TrackKinds,
          rs \in {r \in RmwShrinks : r.num > 0 /\ ~r.isInt} :
          args = [op |-> "scenario", eps |-> [num |-> 10, den |-> 1], min_samples |-> 2,
                  labels |-> <<>>, target_cluster |-> 0, n_components |-> k, top_n |-> 1,
                  kind |-> kind, wind_boost |-> Factor(115, FALSE, "1.15"), rmw_shrink |-> rs]
    /\ out = NoOut

\* labels = cluster_tracks_by_path(tracks, eps=1.0, min_samples=2)
ScenarioCluster ==
    /\ pc = "scenario"
    /\ pc' = "scenario_labelled"
    /\ out' = ClusterTracksByPath(tracks, args.eps, args.min_samples)
    /\ args' = [args EXCEPT !.labels = out'.value]
    /\ UNCHANGED <<synthVars, tracks>>

\* refined = refine_bhola_analogs(tracks, labels, 0, n_components, 1)
ScenarioRefine ==
    /\ pc = "scenario_labelled"
    /\ pc' = "scenario_refined"
    /\ out' \in RefineBholaAnalogs(tracks, args.labels, args.target_cluster,
                                   args.n_components, args.top_n)
    /\ UNCHANGED <<synthVars, tracks, args>>

\* synthetic = apply_climate_modifiers(refined[0], 1.15, rmw_shrink)
ScenarioSynthesize ==
    /\ pc = "scenario_refined"
    /\ out.raised = "none"
    /\ Len(out.value) >= 1
    /\ pc' = "scenario_done"
    /\ LET h  == ScenarioLoad(tracks[out.value[1]], args.kind)
           r  == ApplyClimateModifiers(h.arrays, h.dicts, h.track, args.wind_boost, args.rmw_shrink)
           ok == r.raised = "none"
       IN /\ arrays' = r.arrays
          /\ dicts' = r.dicts
          /\ analog' = h.track
          /\ analog0' = Contents(h.arrays, h.dicts, h.track)
          /\ variants' = IF ok THEN <<r.modified>> ELSE <<>>
          /\ calls' = <<[wb |-> args.wind_boost, rs |-> args.rmw_shrink,
                         input |-> Contents(h.arrays, h.dicts, h.track),
                         raised |-> r.raised,
                         variant |-> IF ok THEN 1 ELSE 0,
                         returned |-> IF ok THEN Contents(r.arrays, r.dicts, r.modified)
                                      ELSE NoTrack]>>
    /\ UNCHANGED <<writes, tracks, args, out>>

NextScenario == ScenarioCluster \/ ScenarioRefine \/ ScenarioSynthesize

SpecScenario == InitScenario /\ [][NextScenario]_vars

Clustered == pc \in {"scenario_labelled", "scenario_refined", "scenario_done"}

Refined == pc \in {"scenario_refined", "scenario_done"}

\* in every returned synthetic track the point where the analog's wind is
\* 100 knots has 115 knots and, if the analog has a central pressure,
\* 942.5 mb
PeakBoosted ==
    \A c \in Returned :
        /\ \E i \in 1..Len(Wind(calls[c].input)) : Wind(calls[c].input)[i] = Whole(100)
        /\ \A i \in 1..Len(Wind(calls[c].input)) :
              /\ Wind(calls[c].input)[i] <= Whole(100)
              /\ Wind(calls[c].input)[i] = Whole(100) =>
                    /\ Wind(calls[c].returned)[i] = Whole(115)
                    /\ HasPressure(calls[c].input) =>
                          Pressure(calls[c].returned)[i] = Whole(942) + (Unit \div 2)

====
